---- MODULE Spec2Model ----
(***************************************************************************)
(* The aws_cognito_user_pool_client resource of terraform-provider-aws:    *)
(* its schema, its Create / Read / Update / Delete / Import handlers and   *)
(* the request encoders they share, against a Cognito endpoint whose       *)
(* answers (success, not-found, other failures, records with missing       *)
(* fields) are chosen nondeterministically.                                *)
(*                                                                         *)
(* Identifiers (resource ID, user_pool_id, import identifier) are          *)
(* sequences of one-character strings so that strings.Split and len can    *)
(* be computed; every other string is a TLA+ string.  A Go pointer, a      *)
(* possibly-nil slice and an optional configuration attribute are all      *)
(* modelled as a set with at most one element: {} is nil / not configured, *)
(* {v} carries v.                                                          *)
(***************************************************************************)
EXTENDS Integers, Sequences, FiniteSets, TLC

VARIABLES d, cfg, remote, lastOp

vars == <<d, cfg, remote, lastOp>>

(***************************** bounds **************************************)

\* Longest import identifier that is tried.
MaxIdLen == 3

\* Number of client ids the remote endpoint can hand out.
MaxClients == 1

\* Most set attributes configured at once when the encoders are exercised.
MaxSetsConfigured == 2

(***************************** pointers ************************************)

None == {}

Some(v) == {v}

ValueOf(p) == CHOOSE v \in p : TRUE

\* aws.StringValue / aws.BoolValue / flattenStringSet: nil reads as zero.
OrZero(p, zero) == IF p = None THEN zero ELSE ValueOf(p)

\* aws.StringValue on an identifier.
IdValue(p) == OrZero(p, <<>>)

(***************************** value domains *******************************)

Separator == "/"

IdChars == {"p", "c", Separator}

UserPoolIds == {<<"p">>, <<"q">>}

AllClientIds == <<(<<"c">>), (<<"e">>), (<<"f">>)>>

ClientIds == {AllClientIds[i] : i \in 1..MaxClients}

\* The secret the endpoint generates for a client.
SecretOf(cid) ==
    IF cid = <<"c">> THEN "sek-1" ELSE IF cid = <<"e">> THEN "sek-2" ELSE "sek-3"

Secrets == {SecretOf(AllClientIds[i]) : i \in 1..Len(AllClientIds)}

RECURSIVE SeqsUpTo(_, _)
SeqsUpTo(S, n) ==
    IF n = 0 THEN {<<>>}
    ELSE LET shorter == SeqsUpTo(S, n - 1)
         IN  shorter \cup {Append(s, c) : s \in shorter, c \in S}

Identifiers == SeqsUpTo(IdChars, MaxIdLen)

(***************************** schema **************************************)

SetFields ==
    {"explicit_auth_flows", "read_attributes", "write_attributes",
     "allowed_oauth_flows", "allowed_oauth_scopes", "callback_urls",
     "logout_urls", "supported_identity_providers"}

\* ForceNew missing from generate_secret.
ForceNewPoolOnly == {"user_pool_id"}

\* Attributes declared ForceNew: true.
ForceNew == {"generate_secret", "user_pool_id"}

\* Default of refresh_token_validity.
RefreshTokenValidityDefault == 30

\* A ResourceData with no state and no ID.
NewResourceData ==
    [id |-> <<>>,
     name |-> "",
     client_secret |-> "",
     generate_secret |-> FALSE,
     user_pool_id |-> <<>>,
     explicit_auth_flows |-> {},
     read_attributes |-> {},
     write_attributes |-> {},
     refresh_token_validity |-> 0,
     allowed_oauth_flows |-> {},
     allowed_oauth_flows_user_pool_client |-> FALSE,
     allowed_oauth_scopes |-> {},
     callback_urls |-> {},
     default_redirect_uri |-> "",
     logout_urls |-> {},
     prevent_user_existence_errors |-> "",
     supported_identity_providers |-> {},
     analytics_configuration |-> <<>>]

\* The analytics_configuration block a handler sees: role_arn is Optional and
\* Computed, so an unconfigured role_arn keeps the value in state.
PlanAnalytics(state, conf) ==
    IF conf = <<>> THEN <<>>
    ELSE LET b == conf[1]
             old == IF state = <<>> THEN "" ELSE state[1].role_arn
         IN  << [b EXCEPT !.role_arn = IF b.role_arn = "" THEN old ELSE b.role_arn] >>

\* The ResourceData handed to Create and Update: configured values over the
\* state, zero values (or the Default) for unconfigured Optional attributes,
\* the state's value for Computed ones.
PlannedData(state, c) ==
    [id |-> state.id,
     name |-> c.name,
     client_secret |-> state.client_secret,
     generate_secret |-> OrZero(c.generate_secret, FALSE),
     user_pool_id |-> c.user_pool_id,
     explicit_auth_flows |-> OrZero(c.explicit_auth_flows, {}),
     read_attributes |-> OrZero(c.read_attributes, {}),
     write_attributes |-> OrZero(c.write_attributes, {}),
     refresh_token_validity |->
         OrZero(c.refresh_token_validity, RefreshTokenValidityDefault),
     allowed_oauth_flows |-> OrZero(c.allowed_oauth_flows, {}),
     allowed_oauth_flows_user_pool_client |->
         OrZero(c.allowed_oauth_flows_user_pool_client, FALSE),
     allowed_oauth_scopes |-> OrZero(c.allowed_oauth_scopes, {}),
     callback_urls |-> OrZero(c.callback_urls, {}),
     default_redirect_uri |-> OrZero(c.default_redirect_uri, ""),
     logout_urls |-> OrZero(c.logout_urls, {}),
     prevent_user_existence_errors |->
         OrZero(c.prevent_user_existence_errors,
                state.prevent_user_existence_errors),
     supported_identity_providers |-> OrZero(c.supported_identity_providers, {}),
     analytics_configuration |->
         PlanAnalytics(state.analytics_configuration, c.analytics_configuration)]

(***************************** schema validation ***************************)

\* The string attributes of the analytics_configuration block.
AnalyticsKeys == {"application_id", "application_arn", "external_id", "role_arn"}

\* ExactlyOneOf as the block's attributes declare it.
ExactlyOneOf ==
    [application_id |-> {"application_id", "application_arn"},
     application_arn |-> {"application_id", "application_arn"},
     external_id |-> {},
     role_arn |-> {}]

\* ConflictsWith with role_arn left out of every declaration.
ConflictsWithExternalIdOnly ==
    [application_id |-> {},
     application_arn |-> {"external_id"},
     external_id |-> {"application_arn"},
     role_arn |-> {}]

\* ConflictsWith as the block's attributes declare it.
ConflictsWith ==
    [application_id |-> {},
     application_arn |-> {"external_id", "role_arn"},
     external_id |-> {"application_arn"},
     role_arn |-> {"application_arn"}]

\* An attribute of the block is given in the configuration.
Specified(block, k) == block[k] # ""

\* The declarations a configured block breaks: ExactlyOneOf is checked for
\* every attribute that declares it, given or not; ConflictsWith for every
\* attribute that is given.
AnalyticsViolations(block) ==
    {<<"ExactlyOneOf", k>> : k \in
        {k \in AnalyticsKeys :
            /\ ExactlyOneOf[k] # {}
            /\ Cardinality({j \in ExactlyOneOf[k] : Specified(block, j)}) # 1}}
    \cup
    {<<"ConflictsWith", k>> : k \in
        {k \in AnalyticsKeys :
            /\ Specified(block, k)
            /\ \E j \in ConflictsWith[k] : Specified(block, j)}}

\* Every violation of the schema a configuration holds, gathered in one pass.
SchemaViolations(c) ==
    IF c.analytics_configuration = <<>> THEN {}
    ELSE AnalyticsViolations(c.analytics_configuration[1])

(***************************** request encoders ****************************)

\* d.GetOk: ok exactly when the value differs from the zero value of its type.
GetOk(v, zero) == v # zero

\* "if v, ok := d.GetOk(k); ok { params.F = ... }": set when ok, else nil.
IfOk(v, zero) == IF GetOk(v, zero) THEN Some(v) ELSE None

expandAwsCognitoUserPoolClientAnalyticsConfig(l) ==
    IF Len(l) = 0 THEN None
    ELSE LET m == l[1]
         IN  Some([RoleArn |-> IF m.role_arn # "" THEN Some(m.role_arn) ELSE None,
                   ExternalId |->
                       IF m.external_id # "" THEN Some(m.external_id) ELSE None,
                   ApplicationId |->
                       IF m.application_id # "" THEN Some(m.application_id) ELSE None,
                   ApplicationArn |->
                       IF m.application_arn # "" THEN Some(m.application_arn) ELSE None,
                   UserDataShared |-> Some(m.user_data_shared)])

\* flatten with the external_id entry forgotten.
flattenWithoutExternalId(analyticsConfig) ==
    IF analyticsConfig = None THEN <<>>
    ELSE LET a == ValueOf(analyticsConfig)
         IN  << [user_data_shared |-> OrZero(a.UserDataShared, FALSE),
                 external_id |-> "",
                 role_arn |-> OrZero(a.RoleArn, ""),
                 application_id |-> OrZero(a.ApplicationId, ""),
                 application_arn |-> OrZero(a.ApplicationArn, "")] >>

\* What d.Set stores for the flattened list: every key of the block's schema,
\* a key the flattened map lacks at its zero value.
flattenAwsCognitoUserPoolClientAnalyticsConfig(analyticsConfig) ==
    IF analyticsConfig = None THEN <<>>
    ELSE LET a == ValueOf(analyticsConfig)
         IN  << [user_data_shared |-> OrZero(a.UserDataShared, FALSE),
                 external_id |-> OrZero(a.ExternalId, ""),
                 role_arn |-> OrZero(a.RoleArn, ""),
                 application_id |-> OrZero(a.ApplicationId, ""),
                 application_arn |-> OrZero(a.ApplicationArn, "")] >>

\* The CreateUserPoolClientInput built by Create.
CreateParams(data) ==
    [ClientName |-> Some(data.name),
     UserPoolId |-> Some(data.user_pool_id),
     GenerateSecret |-> IfOk(data.generate_secret, FALSE),
     ExplicitAuthFlows |-> IfOk(data.explicit_auth_flows, {}),
     ReadAttributes |-> IfOk(data.read_attributes, {}),
     WriteAttributes |-> IfOk(data.write_attributes, {}),
     RefreshTokenValidity |-> IfOk(data.refresh_token_validity, 0),
     AllowedOAuthFlows |-> IfOk(data.allowed_oauth_flows, {}),
     AllowedOAuthFlowsUserPoolClient |->
         IfOk(data.allowed_oauth_flows_user_pool_client, FALSE),
     AllowedOAuthScopes |-> IfOk(data.allowed_oauth_scopes, {}),
     CallbackURLs |-> IfOk(data.callback_urls, {}),
     DefaultRedirectURI |-> IfOk(data.default_redirect_uri, ""),
     LogoutURLs |-> IfOk(data.logout_urls, {}),
     SupportedIdentityProviders |-> IfOk(data.supported_identity_providers, {}),
     AnalyticsConfiguration |->
         IF GetOk(data.analytics_configuration, <<>>)
         THEN expandAwsCognitoUserPoolClientAnalyticsConfig(
                  data.analytics_configuration)
         ELSE None,
     PreventUserExistenceErrors |-> IfOk(data.prevent_user_existence_errors, "")]

\* The UpdateUserPoolClientInput built by Update.
UpdateParams(data) ==
    [ClientId |-> Some(data.id),
     UserPoolId |-> Some(data.user_pool_id),
     ClientName |-> IfOk(data.name, ""),
     ExplicitAuthFlows |-> IfOk(data.explicit_auth_flows, {}),
     ReadAttributes |-> IfOk(data.read_attributes, {}),
     WriteAttributes |-> IfOk(data.write_attributes, {}),
     RefreshTokenValidity |-> IfOk(data.refresh_token_validity, 0),
     AllowedOAuthFlows |-> IfOk(data.allowed_oauth_flows, {}),
     AllowedOAuthFlowsUserPoolClient |->
         IfOk(data.allowed_oauth_flows_user_pool_client, FALSE),
     AllowedOAuthScopes |-> IfOk(data.allowed_oauth_scopes, {}),
     CallbackURLs |-> IfOk(data.callback_urls, {}),
     DefaultRedirectURI |-> IfOk(data.default_redirect_uri, ""),
     LogoutURLs |-> IfOk(data.logout_urls, {}),
     PreventUserExistenceErrors |-> IfOk(data.prevent_user_existence_errors, ""),
     SupportedIdentityProviders |-> IfOk(data.supported_identity_providers, {}),
     AnalyticsConfiguration |->
         IF GetOk(data.analytics_configuration, <<>>)
         THEN expandAwsCognitoUserPoolClientAnalyticsConfig(
                  data.analytics_configuration)
         ELSE None]

\* The DescribeUserPoolClientInput of Read and the DeleteUserPoolClientInput
\* of Delete: the identity, and nothing else.
IdentityParams(data) ==
    [ClientId |-> Some(data.id), UserPoolId |-> Some(data.user_pool_id)]

(***************************** the Cognito endpoint ************************)

ErrCodeResourceNotFoundException == "ResourceNotFoundException"

ErrCodeInvalidParameterException == "InvalidParameterException"

ErrCodeTooManyRequestsException == "TooManyRequestsException"

ErrCodeLimitExceededException == "LimitExceededException"

\* How the endpoint may answer a call: as its store says ("ok"), with a
\* record that lacks ClientId, or with an error whatever the store holds
\* (for a create call: the request refused, or throttled).
CreateAnswers == {"ok", "NoClientId", "Invalid", "Throttled"}

DescribeAnswers == {"ok", "NoClientId", "NotFound", "Invalid"}

UpdateAnswers == {"ok", "Invalid"}

DeleteAnswers == {"ok", "Invalid"}

\* The answers to the read-back of a Create or Update answered `answer`: a
\* call answered with an error is followed by no Describe call to answer.
ReadBackAnswers(answer) ==
    IF answer \in {"ok", "NoClientId"} THEN DescribeAnswers ELSE {"ok"}

AnswerCode(answer) ==
    CASE answer = "NotFound" -> ErrCodeResourceNotFoundException
      [] answer = "Invalid" -> ErrCodeInvalidParameterException
      [] answer = "Throttled" -> ErrCodeTooManyRequestsException
      [] OTHER -> ""

\* The stored clients a request's (UserPoolId, ClientId) names.
Lookup(rem, params) ==
    {r \in rem : r.ClientId = params.ClientId /\ r.UserPoolId = params.UserPoolId}

\* The UserPoolClientType the endpoint stores for a create request: every
\* request field as sent, the assigned ClientId, and a ClientSecret when
\* GenerateSecret was sent as true.
CreatedClient(params, cid) ==
    [ClientId |-> Some(cid),
     UserPoolId |-> params.UserPoolId,
     ClientName |-> params.ClientName,
     ClientSecret |->
         IF params.GenerateSecret = Some(TRUE) THEN Some(SecretOf(cid)) ELSE None,
     ExplicitAuthFlows |-> params.ExplicitAuthFlows,
     ReadAttributes |-> params.ReadAttributes,
     WriteAttributes |-> params.WriteAttributes,
     RefreshTokenValidity |-> params.RefreshTokenValidity,
     AllowedOAuthFlows |-> params.AllowedOAuthFlows,
     AllowedOAuthFlowsUserPoolClient |-> params.AllowedOAuthFlowsUserPoolClient,
     AllowedOAuthScopes |-> params.AllowedOAuthScopes,
     CallbackURLs |-> params.CallbackURLs,
     DefaultRedirectURI |-> params.DefaultRedirectURI,
     LogoutURLs |-> params.LogoutURLs,
     PreventUserExistenceErrors |-> params.PreventUserExistenceErrors,
     SupportedIdentityProviders |-> params.SupportedIdentityProviders,
     AnalyticsConfiguration |-> params.AnalyticsConfiguration]

\* The stored client after an update request: identity and secret kept, the
\* name kept when the request carries none, every other field as sent.
UpdatedClient(r, params) ==
    [ClientId |-> r.ClientId,
     UserPoolId |-> r.UserPoolId,
     ClientName |-> IF params.ClientName = None THEN r.ClientName ELSE params.ClientName,
     ClientSecret |-> r.ClientSecret,
     ExplicitAuthFlows |-> params.ExplicitAuthFlows,
     ReadAttributes |-> params.ReadAttributes,
     WriteAttributes |-> params.WriteAttributes,
     RefreshTokenValidity |-> params.RefreshTokenValidity,
     AllowedOAuthFlows |-> params.AllowedOAuthFlows,
     AllowedOAuthFlowsUserPoolClient |-> params.AllowedOAuthFlowsUserPoolClient,
     AllowedOAuthScopes |-> params.AllowedOAuthScopes,
     CallbackURLs |-> params.CallbackURLs,
     DefaultRedirectURI |-> params.DefaultRedirectURI,
     LogoutURLs |-> params.LogoutURLs,
     PreventUserExistenceErrors |-> params.PreventUserExistenceErrors,
     SupportedIdentityProviders |-> params.SupportedIdentityProviders,
     AnalyticsConfiguration |-> params.AnalyticsConfiguration]

FreeClientIds(rem) == {c \in ClientIds : \A r \in rem : r.ClientId # Some(c)}

\* The lowest-numbered client id not in use.
NextClientId(rem) ==
    AllClientIds[CHOOSE i \in 1..MaxClients :
                     /\ AllClientIds[i] \in FreeClientIds(rem)
                     /\ \A j \in 1..(i - 1) : AllClientIds[j] \notin FreeClientIds(rem)]

CreateUserPoolClient(rem, params, answer) ==
    IF AnswerCode(answer) # ""
    THEN [code |-> AnswerCode(answer), resp |-> None, remote |-> rem]
    ELSE IF FreeClientIds(rem) = {}
    THEN [code |-> ErrCodeLimitExceededException, resp |-> None, remote |-> rem]
    ELSE LET client == CreatedClient(params, NextClientId(rem))
         IN  [code |-> "",
              resp |-> IF answer = "NoClientId"
                       THEN Some([client EXCEPT !.ClientId = None])
                       ELSE Some(client),
              remote |-> rem \cup {client}]

DescribeUserPoolClient(rem, params, answer) ==
    IF AnswerCode(answer) # ""
    THEN [code |-> AnswerCode(answer), resp |-> None, remote |-> rem]
    ELSE IF Lookup(rem, params) = {}
    THEN [code |-> ErrCodeResourceNotFoundException, resp |-> None, remote |-> rem]
    ELSE LET client == CHOOSE r \in Lookup(rem, params) : TRUE
         IN  [code |-> "",
              resp |-> IF answer = "NoClientId"
                       THEN Some([client EXCEPT !.ClientId = None])
                       ELSE Some(client),
              remote |-> rem]

UpdateUserPoolClient(rem, params, answer) ==
    IF AnswerCode(answer) # ""
    THEN [code |-> AnswerCode(answer), resp |-> None, remote |-> rem]
    ELSE IF Lookup(rem, params) = {}
    THEN [code |-> ErrCodeResourceNotFoundException, resp |-> None, remote |-> rem]
    ELSE LET client == CHOOSE r \in Lookup(rem, params) : TRUE
         IN  [code |-> "",
              resp |-> Some(UpdatedClient(client, params)),
              remote |-> (rem \ {client}) \cup {UpdatedClient(client, params)}]

DeleteUserPoolClient(rem, params, answer) ==
    IF AnswerCode(answer) # ""
    THEN [code |-> AnswerCode(answer), resp |-> None, remote |-> rem]
    ELSE IF Lookup(rem, params) = {}
    THEN [code |-> ErrCodeResourceNotFoundException, resp |-> None, remote |-> rem]
    ELSE [code |-> "", resp |-> None, remote |-> rem \ Lookup(rem, params)]

(***************************** logging and errors **************************)

\* A Go error: nil is NoError; fmt.Errorf(prefix + ": %s", err) keeps the
\* AWS error code it wraps.
NoError == [prefix |-> "", code |-> ""]

Errorf(prefix, code) == [prefix |-> prefix, code |-> code]

isAWSErr(code, wanted) == code = wanted

AnalyticsStrings(a) ==
    IF a = None THEN {}
    ELSE LET v == ValueOf(a)
         IN  v.RoleArn \cup v.ExternalId \cup v.ApplicationId \cup v.ApplicationArn

\* Every string a request carries (identifiers apart).
RequestStrings(params) ==
    IF "ClientName" \notin DOMAIN params THEN {}
    ELSE params.ClientName \cup params.DefaultRedirectURI
         \cup params.PreventUserExistenceErrors
         \cup UNION params.ExplicitAuthFlows \cup UNION params.ReadAttributes
         \cup UNION params.WriteAttributes \cup UNION params.AllowedOAuthFlows
         \cup UNION params.AllowedOAuthScopes \cup UNION params.CallbackURLs
         \cup UNION params.LogoutURLs \cup UNION params.SupportedIdentityProviders
         \cup AnalyticsStrings(params.AnalyticsConfiguration)

\* Every identifier a request carries.
RequestIds(params) ==
    params.UserPoolId
    \cup (IF "ClientId" \in DOMAIN params THEN params.ClientId ELSE {})

\* log.Printf(msg + ": %s", params): the message and every value printed.
LogParams(msg, params) ==
    [msg |-> msg, ids |-> RequestIds(params), strs |-> RequestStrings(params)]

LogIds(msg, ids) == [msg |-> msg, ids |-> ids, strs |-> {}]

\* One call to the endpoint: the operation, the request, and the answer (the
\* error code, "" for success, and the client in the response, if any).
Call(api, params, out) ==
    [api |-> api, params |-> params, code |-> out.code, resp |-> out.resp]

(***************************** handlers ************************************)

SetId(data, id) == [data EXCEPT !.id = id]

\* Read, lines 288-309: every attribute is set from the response.
ReadSetAttributes(data, client) ==
    [id |-> IdValue(client.ClientId),
     user_pool_id |-> IdValue(client.UserPoolId),
     name |-> OrZero(client.ClientName, ""),
     explicit_auth_flows |-> OrZero(client.ExplicitAuthFlows, {}),
     read_attributes |-> OrZero(client.ReadAttributes, {}),
     write_attributes |-> OrZero(client.WriteAttributes, {}),
     refresh_token_validity |-> OrZero(client.RefreshTokenValidity, 0),
     client_secret |-> OrZero(client.ClientSecret, ""),
     allowed_oauth_flows |-> OrZero(client.AllowedOAuthFlows, {}),
     allowed_oauth_flows_user_pool_client |->
         OrZero(client.AllowedOAuthFlowsUserPoolClient, FALSE),
     allowed_oauth_scopes |-> OrZero(client.AllowedOAuthScopes, {}),
     callback_urls |-> OrZero(client.CallbackURLs, {}),
     default_redirect_uri |-> OrZero(client.DefaultRedirectURI, ""),
     logout_urls |-> OrZero(client.LogoutURLs, {}),
     prevent_user_existence_errors |->
         OrZero(client.PreventUserExistenceErrors, ""),
     supported_identity_providers |->
         OrZero(client.SupportedIdentityProviders, {}),
     analytics_configuration |->
         flattenAwsCognitoUserPoolClientAnalyticsConfig(
             client.AnalyticsConfiguration),
     generate_secret |-> data.generate_secret]

\* ReadFailed without the not-found branch: every error is returned.
ReadFailedPropagates(data, code) ==
    [d |-> data, err |-> Errorf("", code), logs |-> <<>>]

\* Read, lines 279-286: the Describe call failed with `code`.
ReadFailed(data, code) ==
    IF isAWSErr(code, ErrCodeResourceNotFoundException)
    THEN [d |-> SetId(data, <<>>),
          err |-> NoError,
          logs |-> << LogIds("Cognito User Pool Client is already gone", {data.id}) >>]
    ELSE [d |-> data, err |-> Errorf("", code), logs |-> <<>>]

\* ReadLog printing the ResourceData's attributes beside the request.
ReadLogWithState(data, params) ==
    [msg |-> "Reading Cognito User Pool Client",
     ids |-> RequestIds(params),
     strs |-> {data.name, data.client_secret}]

\* Read, line 275.
ReadLog(data, params) == LogParams("Reading Cognito User Pool Client", params)

resourceAwsCognitoUserPoolClientRead(data, rem, answer) ==
    LET params == IdentityParams(data)
        out == DescribeUserPoolClient(rem, params, answer)
        call == Call("DescribeUserPoolClient", params, out)
        failed == ReadFailed(data, out.code)
    IN  IF out.code # ""
        THEN [d |-> failed.d, remote |-> out.remote, err |-> failed.err,
              calls |-> << call >>,
              logs |-> << ReadLog(data, params) >> \o failed.logs]
        ELSE [d |-> ReadSetAttributes(data, ValueOf(out.resp)),
              remote |-> out.remote, err |-> NoError,
              calls |-> << call >>,
              logs |-> << ReadLog(data, params) >>]

\* CreateFailed with the error dropped.
CreateFailedSwallowed(data, code) ==
    [d |-> data, err |-> NoError]

\* Create, lines 258-260: the create call failed with `code`.
CreateFailed(data, code) ==
    [d |-> data, err |-> Errorf("Error creating Cognito User Pool Client", code)]

resourceAwsCognitoUserPoolClientCreate(data, rem, answer, readAnswer) ==
    LET params == CreateParams(data)
        out == CreateUserPoolClient(rem, params, answer)
        call == Call("CreateUserPoolClient", params, out)
        log == LogParams("Creating Cognito User Pool Client", params)
    IN  IF out.code # ""
        THEN [d |-> CreateFailed(data, out.code).d, remote |-> out.remote,
              err |-> CreateFailed(data, out.code).err,
              calls |-> << call >>, logs |-> << log >>]
        ELSE LET read == resourceAwsCognitoUserPoolClientRead(
                             SetId(data, IdValue(ValueOf(out.resp).ClientId)),
                             out.remote, readAnswer)
             IN  [d |-> read.d, remote |-> read.remote, err |-> read.err,
                  calls |-> << call >> \o read.calls,
                  logs |-> << log >> \o read.logs]

\* UpdateFailed with the error dropped.
UpdateFailedSwallowed(data, code) ==
    [d |-> data, err |-> NoError]

\* Update, lines 379-381: the update call failed with `code`.
UpdateFailed(data, code) ==
    [d |-> data, err |-> Errorf("Error updating Cognito User Pool Client", code)]

resourceAwsCognitoUserPoolClientUpdate(data, rem, answer, readAnswer) ==
    LET params == UpdateParams(data)
        out == UpdateUserPoolClient(rem, params, answer)
        call == Call("UpdateUserPoolClient", params, out)
        log == LogParams("Updating Cognito User Pool Client", params)
    IN  IF out.code # ""
        THEN [d |-> UpdateFailed(data, out.code).d, remote |-> out.remote,
              err |-> UpdateFailed(data, out.code).err,
              calls |-> << call >>, logs |-> << log >>]
        ELSE LET read == resourceAwsCognitoUserPoolClientRead(
                             data, out.remote, readAnswer)
             IN  [d |-> read.d, remote |-> read.remote, err |-> read.err,
                  calls |-> << call >> \o read.calls,
                  logs |-> << log >> \o read.logs]

\* Delete, lines 398-402: what Delete returns for the delete call's `code`.
DeleteResult(code) ==
    IF code # "" THEN Errorf("Error deleting Cognito User Pool Client", code)
    ELSE NoError

resourceAwsCognitoUserPoolClientDelete(data, rem, answer) ==
    LET params == IdentityParams(data)
        out == DeleteUserPoolClient(rem, params, answer)
    IN  [d |-> data, remote |-> out.remote, err |-> DeleteResult(out.code),
         calls |-> << Call("DeleteUserPoolClient", params, out) >>,
         logs |-> << LogParams("Deleting Cognito User Pool Client", params) >>]

\* First position of sep in s, 0 when s holds none.
IndexOf(s, sep) ==
    IF \E i \in 1..Len(s) : s[i] = sep
    THEN CHOOSE i \in 1..Len(s) : s[i] = sep /\ \A j \in 1..(i - 1) : s[j] # sep
    ELSE 0

\* strings.Split(s, sep): the pieces between the separators, empty ones kept.
RECURSIVE Split(_, _)
Split(s, sep) ==
    IF IndexOf(s, sep) = 0 THEN << s >>
    ELSE << SubSeq(s, 1, IndexOf(s, sep) - 1) >>
         \o Split(SubSeq(s, IndexOf(s, sep) + 1, Len(s)), sep)

\* Parts an import identifier must split into, and its least length.
ImportParts == 2

ImportMinLen == 3

\* ImportWrongFormat asking for at least, not exactly, two parts.
ImportWrongFormatAtLeast(id) ==
    Len(Split(id, Separator)) < ImportParts \/ Len(id) < ImportMinLen

\* Import, line 406: the identifier is refused.
ImportWrongFormat(id) ==
    Len(Split(id, Separator)) # ImportParts \/ Len(id) < ImportMinLen

\* Import: `data` is a new ResourceData whose ID is the identifier given.
\* result is the slice returned.
resourceAwsCognitoUserPoolClientImport(data) ==
    IF ImportWrongFormat(data.id)
    THEN [d |-> data, result |-> <<>>,
          err |-> Errorf("Wrong format of resource", "FormatError"),
          calls |-> <<>>, logs |-> <<>>]
    ELSE LET userPoolId == Split(data.id, Separator)[1]
             clientId == Split(data.id, Separator)[2]
             seeded == [SetId(data, clientId) EXCEPT !.user_pool_id = userPoolId]
         IN  [d |-> seeded, result |-> << seeded >>, err |-> NoError,
              calls |-> <<>>,
              logs |-> << LogIds("Importing client for user pool",
                                 {clientId, userPoolId}) >>]

(***************************** configurations ******************************)

\* The configurations the lifecycle is run with: name, user_pool_id,
\* generate_secret and explicit_auth_flows vary, the rest is not configured.
Configs ==
    [name : {"app1"},
     user_pool_id : UserPoolIds,
     generate_secret : {None, Some(TRUE)},
     explicit_auth_flows : {None, Some({"ADMIN_NO_SRP_AUTH"})},
     read_attributes : {None},
     write_attributes : {None},
     refresh_token_validity : {None},
     allowed_oauth_flows : {None},
     allowed_oauth_flows_user_pool_client : {None},
     allowed_oauth_scopes : {None},
     callback_urls : {None},
     default_redirect_uri : {None},
     logout_urls : {None},
     prevent_user_existence_errors : {None},
     supported_identity_providers : {None},
     analytics_configuration : {<<>>}]

\* A valid element for each set attribute.
SetElement(f) ==
    CASE f = "explicit_auth_flows" -> "ADMIN_NO_SRP_AUTH"
      [] f = "allowed_oauth_flows" -> "code"
      [] f = "allowed_oauth_scopes" -> "openid"
      [] f = "callback_urls" -> "https://example.com/callback"
      [] f = "logout_urls" -> "https://example.com/logout"
      [] f = "supported_identity_providers" -> "COGNITO"
      [] OTHER -> "email"

\* The configurations the encoders are run with: every set attribute is not
\* configured, configured empty or configured with one element, at most
\* MaxSetsConfigured of them configured at once.
CodecSetChoices ==
    {s \in [SetFields -> {"absent", "empty", "populated"}] :
         Cardinality({f \in SetFields : s[f] # "absent"}) <= MaxSetsConfigured}

ConfiguredSet(s, f) ==
    CASE s[f] = "absent" -> None
      [] s[f] = "empty" -> Some({})
      [] OTHER -> Some({SetElement(f)})

CodecConfigs ==
    {[name |-> "app1",
      user_pool_id |-> <<"p">>,
      generate_secret |-> None,
      explicit_auth_flows |-> ConfiguredSet(s, "explicit_auth_flows"),
      read_attributes |-> ConfiguredSet(s, "read_attributes"),
      write_attributes |-> ConfiguredSet(s, "write_attributes"),
      refresh_token_validity |-> None,
      allowed_oauth_flows |-> ConfiguredSet(s, "allowed_oauth_flows"),
      allowed_oauth_flows_user_pool_client |-> None,
      allowed_oauth_scopes |-> ConfiguredSet(s, "allowed_oauth_scopes"),
      callback_urls |-> ConfiguredSet(s, "callback_urls"),
      default_redirect_uri |-> None,
      logout_urls |-> ConfiguredSet(s, "logout_urls"),
      prevent_user_existence_errors |-> None,
      supported_identity_providers |->
          ConfiguredSet(s, "supported_identity_providers"),
      analytics_configuration |-> <<>>] : s \in CodecSetChoices}

\* The analytics_configuration blocks a configuration may hold: each string
\* attribute given or not, user_data_shared false or true.
AnalyticsBlocks ==
    [application_id : {"", "app-1"},
     application_arn : {"", "arn:aws:mobiletargeting:us-east-1:1:apps/app-1"},
     external_id : {"", "ext-1"},
     role_arn : {"", "arn:aws:iam::1:role/r"},
     user_data_shared : BOOLEAN]

\* The configuration the scalar attributes and the block are varied from.
BaseConfig ==
    [name |-> "app1",
     user_pool_id |-> <<"p">>,
     generate_secret |-> None,
     explicit_auth_flows |-> None,
     read_attributes |-> None,
     write_attributes |-> None,
     refresh_token_validity |-> None,
     allowed_oauth_flows |-> None,
     allowed_oauth_flows_user_pool_client |-> None,
     allowed_oauth_scopes |-> None,
     callback_urls |-> None,
     default_redirect_uri |-> None,
     logout_urls |-> None,
     prevent_user_existence_errors |-> None,
     supported_identity_providers |-> None,
     analytics_configuration |-> <<>>]

\* The values each scalar attribute and the block are given.
FieldValues ==
    [name |-> {"app1", ""},
     generate_secret |-> {None, Some(FALSE), Some(TRUE)},
     refresh_token_validity |-> {None, Some(0), Some(5)},
     allowed_oauth_flows_user_pool_client |-> {None, Some(FALSE), Some(TRUE)},
     default_redirect_uri |-> {None, Some("https://example.com/callback")},
     prevent_user_existence_errors |-> {None, Some("ENABLED")},
     analytics_configuration |-> {<<>>} \cup {<< b >> : b \in AnalyticsBlocks}]

\* The configurations the scalar attributes and the block are exercised
\* with: the base configuration with one attribute given another value.
FieldConfigs ==
    {[BaseConfig EXCEPT ![f] = v] : <<f, v>> \in
        UNION {{f} \X FieldValues[f] : f \in DOMAIN FieldValues}}

(***************************** the state machine ***************************)

\* What the last handler call did: its calls to the endpoint, what it logged,
\* the error it returned and (Import) the identifier given and the slice
\* returned.
Done(op, input, r, result) ==
    [op |-> op, input |-> input, err |-> r.err, calls |-> r.calls,
     logs |-> r.logs, result |-> result]

Idle ==
    [op |-> "none", input |-> <<>>, err |-> NoError, calls |-> <<>>,
     logs |-> <<>>, result |-> <<>>]

\* A client made outside the provider, there to be imported.
ExistingClient ==
    CreatedClient(
        CreateParams(PlannedData(NewResourceData,
                                 CHOOSE c \in Configs :
                                     /\ c.user_pool_id = <<"p">>
                                     /\ c.generate_secret = Some(TRUE)
                                     /\ c.explicit_auth_flows = None)),
        AllClientIds[1])

Init ==
    /\ d = NewResourceData
    /\ cfg \in Configs
    /\ remote \in {{}, {ExistingClient}}
    /\ lastOp = Idle

\* The diff that decides between Update and destroy-then-create: some
\* ForceNew attribute's planned value differs from the state's.
RequiresNew(state, c) ==
    \E f \in ForceNew : PlannedData(state, c)[f] # state[f]

\* A new or an edited configuration is validated against the schema; one
\* with violations gets an error and goes no further.
Validate ==
    /\ lastOp.op \in {"none", "EditFields"}
    /\ lastOp' = [Idle EXCEPT
                     !.op = "Validate",
                     !.err = IF SchemaViolations(cfg) = {} THEN NoError
                             ELSE Errorf("", "ValidationError")]
    /\ UNCHANGED <<d, cfg, remote>>

\* Create runs for an entity with no ID and a configuration that passed
\* validation, on a ResourceData holding the configuration and no state.
Create ==
    /\ d.id = <<>>
    /\ SchemaViolations(cfg) = {}
    /\ \E answer \in CreateAnswers : \E readAnswer \in ReadBackAnswers(answer) :
         LET given == PlannedData(NewResourceData, cfg)
             r == resourceAwsCognitoUserPoolClientCreate(
                      given, remote, answer, readAnswer)
         IN  /\ d' = r.d
             /\ remote' = r.remote
             /\ lastOp' = Done("Create", <<>>, r, <<>>)
    /\ UNCHANGED cfg

Read ==
    /\ \E answer \in DescribeAnswers :
         LET r == resourceAwsCognitoUserPoolClientRead(d, remote, answer)
         IN  /\ d' = r.d
             /\ remote' = r.remote
             /\ lastOp' = Done("Read", <<>>, r, <<>>)
    /\ UNCHANGED cfg

\* Update runs for an existing entity whose configuration passed validation
\* and whose diff needs no replacement.
Update ==
    /\ d.id # <<>>
    /\ SchemaViolations(cfg) = {}
    /\ ~RequiresNew(d, cfg)
    /\ \E answer \in UpdateAnswers : \E readAnswer \in ReadBackAnswers(answer) :
         LET given == PlannedData(d, cfg)
             r == resourceAwsCognitoUserPoolClientUpdate(
                      given, remote, answer, readAnswer)
         IN  /\ d' = r.d
             /\ remote' = r.remote
             /\ lastOp' = Done("Update", <<>>, r, <<>>)
    /\ UNCHANGED cfg

Delete ==
    /\ d.id # <<>>
    /\ \E answer \in DeleteAnswers :
         LET r == resourceAwsCognitoUserPoolClientDelete(d, remote, answer)
         IN  /\ d' = r.d
             /\ remote' = r.remote
             /\ lastOp' = Done("Delete", <<>>, r, <<>>)
    /\ UNCHANGED cfg

\* A deleted entity is dropped: the next Create starts from no state.
Discard ==
    /\ lastOp.op = "Delete"
    /\ lastOp.err = NoError
    /\ d' = NewResourceData
    /\ lastOp' = Idle
    /\ UNCHANGED <<cfg, remote>>

\* Import runs for an entity with no state, on a new ResourceData whose ID is
\* the identifier; the entity is the one the returned slice holds, if any.
\* An import is not retried before something else has happened.
Import ==
    /\ d = NewResourceData
    /\ lastOp.op # "Import"
    /\ \E identifier \in Identifiers :
         LET given == SetId(NewResourceData, identifier)
             r == resourceAwsCognitoUserPoolClientImport(given)
         IN  /\ d' = IF r.result = <<>> THEN d ELSE r.result[1]
             /\ lastOp' = Done("Import", identifier, r, r.result)
    /\ UNCHANGED <<cfg, remote>>

\* The configuration is edited.
SetConfig ==
    /\ lastOp.op # "SetConfig"
    /\ \E c \in Configs : c # cfg /\ cfg' = c
    /\ lastOp' = [Idle EXCEPT !.op = "SetConfig"]
    /\ UNCHANGED <<d, remote>>

\* The client is deleted behind the provider's back.
Disappears ==
    /\ \E client \in remote : remote' = remote \ {client}
    /\ UNCHANGED <<d, cfg, lastOp>>

Next ==
    \/ Create
    \/ Read
    \/ Update
    \/ Delete
    \/ Discard
    \/ Import
    \/ SetConfig
    \/ Disappears

Spec == Init /\ [][Next]_vars

(***************************** properties **********************************)

\* The last call the last handler made to the endpoint was a Describe call
\* answered resource-not-found.
ReadFoundNothing(op) ==
    /\ op.calls # <<>>
    /\ op.calls[Len(op.calls)].api = "DescribeUserPoolClient"
    /\ op.calls[Len(op.calls)].code = ErrCodeResourceNotFoundException

\* C1: a Read whose Describe call is answered resource-not-found returns no
\* error, clears the ID and leaves every other attribute of the ResourceData
\* it was given as it was, whether it runs on its own or as the read-back of
\* Create or of Update.
C1_ReadNotFoundClearsId ==
    [][/\ (lastOp'.op = "Read" /\ ReadFoundNothing(lastOp') /\ Read)
          => lastOp'.err = NoError /\ d' = [d EXCEPT !.id = <<>>]
       /\ (lastOp'.op = "Create" /\ ReadFoundNothing(lastOp') /\ Create)
          => /\ lastOp'.err = NoError
             /\ d' = [PlannedData(NewResourceData, cfg) EXCEPT !.id = <<>>]
       /\ (lastOp'.op = "Update" /\ ReadFoundNothing(lastOp') /\ Update)
          => /\ lastOp'.err = NoError
             /\ d' = [PlannedData(d, cfg) EXCEPT !.id = <<>>]]_vars

\* A Read of a client that is gone has cleared the ID and kept the name.
C1_Witness ==
    /\ lastOp.op = "Read"
    /\ ReadFoundNothing(lastOp)
    /\ lastOp.calls[1].params.ClientId = Some(<<"c">>)
    /\ lastOp.err = NoError
    /\ d.id = <<>>
    /\ d.name = "app1"

\* C2: a Delete that follows a successful Delete of the same identity, and
\* whose delete call is therefore answered resource-not-found, returns no
\* error.
C2_DeleteTwice ==
    [][(/\ lastOp.op = "Delete"
        /\ lastOp.err = NoError
        /\ Delete
        /\ lastOp'.calls[1].params = lastOp.calls[1].params
        /\ lastOp'.calls[1].code = ErrCodeResourceNotFoundException)
       => lastOp'.err = NoError]_vars

\* C3: after a Create that returned no error the resource ID is not empty.
C3_IdAfterCreate ==
    (lastOp.op = "Create" /\ lastOp.err = NoError) => d.id # <<>>

\* C4: a Create whose create call failed returns an error, has made no
\* Describe call and leaves the ID empty.
C4_CreateFailureLeavesAbsent ==
    (lastOp.op = "Create" /\ lastOp.calls[1].code # "")
    => /\ lastOp.err # NoError
       /\ lastOp.err.code = lastOp.calls[1].code
       /\ Len(lastOp.calls) = 1
       /\ d.id = <<>>
       /\ d = PlannedData(NewResourceData, cfg)

\* A Create was refused by the endpoint with a non-retryable error.
C4_Witness ==
    /\ lastOp.op = "Create"
    /\ lastOp.calls[1].code = ErrCodeInvalidParameterException
    /\ lastOp.err # NoError
    /\ d.id = <<>>

\* The positions of the separator in an identifier.
SeparatorsIn(id) == {i \in 1..Len(id) : id[i] = Separator}

\* C5: an import identifier whose text before the separator or after the
\* separator is empty is refused with a format error, and nothing is seeded.
C5_EmptyPartRefused ==
    (/\ lastOp.op = "Import"
     /\ SeparatorsIn(lastOp.input) # {}
     /\ (1 \in SeparatorsIn(lastOp.input)
         \/ Len(lastOp.input) \in SeparatorsIn(lastOp.input)))
    => lastOp.err # NoError /\ lastOp.result = <<>>

\* C6: an import identifier with exactly one separator and at least three
\* characters is accepted, user_pool_id being the text before the separator
\* and the ID the text after it; an identifier with no separator, or with two
\* or more, is refused with a format error and no entity is returned.
C6_ImportFormat ==
    lastOp.op = "Import"
    => LET id == lastOp.input
           at == CHOOSE i \in SeparatorsIn(id) : TRUE
       IN  /\ (Cardinality(SeparatorsIn(id)) = 1 /\ Len(id) >= 3)
              => /\ lastOp.err = NoError
                 /\ lastOp.result = << d >>
                 /\ d.user_pool_id = SubSeq(id, 1, at - 1)
                 /\ d.id = SubSeq(id, at + 1, Len(id))
           /\ Cardinality(SeparatorsIn(id)) # 1
              => /\ lastOp.err.code = "FormatError"
                 /\ lastOp.result = <<>>

\* "p/c" was imported as client c of pool p.
C6_Witness ==
    /\ lastOp.op = "Import"
    /\ lastOp.input = <<"p", Separator, "c">>
    /\ lastOp.err = NoError
    /\ d.user_pool_id = <<"p">>
    /\ d.id = <<"c">>

\* The desired state differs from the observed one in user_pool_id or in
\* generate_secret.
ReplaceClassChanged(state, c) ==
    \/ state.user_pool_id # c.user_pool_id
    \/ state.generate_secret # OrZero(c.generate_secret, FALSE)

\* C7: while the desired state of an existing entity differs from the
\* observed one in user_pool_id or generate_secret, neither Update nor Create
\* runs, whatever else has changed: the entity is first deleted and dropped.
C7_ReplaceWins ==
    [][(d.id # <<>> /\ ReplaceClassChanged(d, cfg))
       => /\ ~(lastOp'.op = "Update" /\ Update)
          /\ ~(lastOp'.op = "Create" /\ Create)]_vars

\* The entity was deleted because its pool changed, its
\* explicit_auth_flows having changed as well.
C7_Witness ==
    /\ lastOp.op = "Delete"
    /\ lastOp.err = NoError
    /\ d.id # <<>>
    /\ d.user_pool_id # cfg.user_pool_id
    /\ d.explicit_auth_flows # OrZero(cfg.explicit_auth_flows, {})

C9_SecretScenario ==
    /\ \A i \in DOMAIN lastOp.logs : lastOp.logs[i].strs \cap Secrets = {}
    /\ \A i \in DOMAIN lastOp.calls :
         RequestStrings(lastOp.calls[i].params) \cap Secrets = {}
    /\ {lastOp.err.prefix, lastOp.err.code} \cap Secrets = {}
    /\ d.client_secret \in Secrets \cup {""}
    /\ (/\ lastOp.op = "Create"
        /\ Len(lastOp.calls) = 2
        /\ lastOp.calls[1].params.GenerateSecret = Some(TRUE)
        /\ lastOp.calls[2].code = ""
        /\ ValueOf(lastOp.calls[1].resp).ClientId # None
        /\ ValueOf(lastOp.calls[2].resp).ClientId
               = ValueOf(lastOp.calls[1].resp).ClientId)
       => /\ lastOp.err = NoError
          /\ Some(d.id) = ValueOf(lastOp.calls[1].resp).ClientId
          /\ d.user_pool_id = cfg.user_pool_id
          /\ Some(d.client_secret) = ValueOf(lastOp.calls[1].resp).ClientSecret
          /\ d.client_secret = SecretOf(d.id)

\* Create with {name app1, user_pool_id p, generate_secret true} was answered
\* ClientId c and ClientSecret sek-1.
C9_Witness ==
    /\ lastOp.op = "Create"
    /\ cfg.name = "app1"
    /\ cfg.generate_secret = Some(TRUE)
    /\ d.user_pool_id = <<"p">>
    /\ d.id = <<"c">>
    /\ d.client_secret = "sek-1"

\* The calls of the last handler that are create calls.
CreateCalls ==
    {i \in DOMAIN lastOp.calls : lastOp.calls[i].api = "CreateUserPoolClient"}

\* C12: a Create whose create call is throttled issues the call again: it
\* returns the throttling error only after more than one attempt.
C12_CreateRetriesThrottling ==
    (/\ lastOp.op = "Create"
     /\ lastOp.calls[1].code = ErrCodeTooManyRequestsException)
    => /\ Cardinality(CreateCalls) > 1
       /\ lastOp.err # NoError
          => \A i \in CreateCalls :
               lastOp.calls[i].code = ErrCodeTooManyRequestsException

(***************************** scalar attributes and the block *************)

\* The configuration of a client just created is edited.
EditFields ==
    /\ lastOp.op = "Create"
    /\ lastOp.err = NoError
    /\ d.id # <<>>
    /\ \E c \in FieldConfigs : c # cfg /\ cfg' = c
    /\ lastOp' = [Idle EXCEPT !.op = "EditFields"]
    /\ UNCHANGED <<d, remote>>

FieldsInit ==
    /\ d = NewResourceData
    /\ cfg \in FieldConfigs
    /\ remote = {}
    /\ lastOp = Idle

FieldsNext ==
    \/ Validate
    \/ Create
    \/ Update
    \/ EditFields

SpecFields == FieldsInit /\ [][FieldsNext]_vars

\* The last handler was a Create whose create call and read-back were both
\* answered with the client as the endpoint stored it: every field of the
\* create request unchanged, under the ClientId assigned.
EchoedCreate ==
    /\ lastOp.op = "Create"
    /\ Len(lastOp.calls) = 2
    /\ lastOp.calls[1].code = ""
    /\ lastOp.calls[2].code = ""
    /\ ValueOf(lastOp.calls[1].resp).ClientId # None
    /\ lastOp.calls[2].resp = lastOp.calls[1].resp
    /\ \A f \in DOMAIN lastOp.calls[1].params \ {"GenerateSecret"} :
         ValueOf(lastOp.calls[2].resp)[f] = lastOp.calls[1].params[f]

\* Every attribute that is not Computed only holds what the configuration
\* gives it: the value given, the Default of refresh_token_validity or the
\* zero value when none is given.
RoundTripEqual ==
    /\ d.name = cfg.name
    /\ d.user_pool_id = cfg.user_pool_id
    /\ d.generate_secret = OrZero(cfg.generate_secret, FALSE)
    /\ d.refresh_token_validity
           = OrZero(cfg.refresh_token_validity, RefreshTokenValidityDefault)
    /\ d.allowed_oauth_flows_user_pool_client
           = OrZero(cfg.allowed_oauth_flows_user_pool_client, FALSE)
    /\ d.default_redirect_uri = OrZero(cfg.default_redirect_uri, "")
    /\ d.prevent_user_existence_errors
           = OrZero(cfg.prevent_user_existence_errors, "")
    /\ \A f \in SetFields : d[f] = OrZero(cfg[f], {})
    /\ d.analytics_configuration = cfg.analytics_configuration

\* C11 as stated: after a Create and its read-back against an endpoint that
\* echoes the request, every attribute that is not Computed holds what the
\* configuration gives it, and the Computed attributes (the ID, client_secret,
\* prevent_user_existence_errors) are not empty.
C11_RoundTripComputedPopulated ==
    EchoedCreate
    => /\ lastOp.err = NoError
       /\ RoundTripEqual
       /\ d.id # <<>>
       /\ d.client_secret # ""
       /\ d.prevent_user_existence_errors # ""

\* C11, amended: after a Create and its read-back against an endpoint that
\* echoes the request, every attribute that is not Computed only holds what
\* the configuration gives it (refresh_token_validity = 0, false booleans and
\* the analytics_configuration block included), the ID is the ClientId
\* assigned and is not empty, and client_secret is the secret of the
\* response, not empty exactly when generate_secret is true.
C11_RoundTrip ==
    EchoedCreate
    => /\ lastOp.err = NoError
       /\ RoundTripEqual
       /\ d.id # <<>>
       /\ Some(d.id) = ValueOf(lastOp.calls[1].resp).ClientId
       /\ d.client_secret = OrZero(ValueOf(lastOp.calls[2].resp).ClientSecret, "")
       /\ d.client_secret # "" <=> cfg.generate_secret = Some(TRUE)

\* A configuration with a full analytics_configuration block came back from
\* Create as it was given.
C11_Witness ==
    /\ EchoedCreate
    /\ lastOp.err = NoError
    /\ d.id # <<>>
    /\ cfg.analytics_configuration # <<>>
    /\ d.analytics_configuration =
           << [application_id |-> "app-1",
               application_arn |-> "",
               external_id |-> "ext-1",
               role_arn |-> "arn:aws:iam::1:role/r",
               user_data_shared |-> TRUE] >>

\* The analytics_configuration block of the configuration sets both
\* application_id and application_arn, or neither, or sets application_arn
\* together with external_id or role_arn.
BlockRefused ==
    LET b == cfg.analytics_configuration[1]
    IN  \/ b.application_id # "" /\ b.application_arn # ""
        \/ b.application_id = "" /\ b.application_arn = ""
        \/ b.application_arn # "" /\ (b.external_id # "" \/ b.role_arn # "")

\* C13: validation of a configuration with an analytics_configuration block
\* fails, with no call to the endpoint, when the block sets both
\* application_id and application_arn, or neither, or application_arn
\* together with external_id or role_arn, and passes otherwise; and no
\* Create or Update has run on a configuration whose block is one of these.
C13_AnalyticsValidation ==
    cfg.analytics_configuration # <<>>
    => /\ lastOp.op = "Validate"
          => /\ lastOp.calls = <<>>
             /\ BlockRefused <=> lastOp.err # NoError
       /\ lastOp.op \in {"Create", "Update"} => ~BlockRefused

\* A block with application_arn and role_arn was refused.
C13_Witness ==
    /\ lastOp.op = "Validate"
    /\ cfg.analytics_configuration # <<>>
    /\ cfg.analytics_configuration[1].application_id = ""
    /\ cfg.analytics_configuration[1].application_arn # ""
    /\ cfg.analytics_configuration[1].external_id = ""
    /\ cfg.analytics_configuration[1].role_arn # ""
    /\ lastOp.err.code = "ValidationError"
    /\ lastOp.calls = <<>>

\* The fields of a create request that carry a mutable attribute.
MutableRequestFields ==
    {"ClientName", "ExplicitAuthFlows", "ReadAttributes", "WriteAttributes",
     "RefreshTokenValidity", "AllowedOAuthFlows",
     "AllowedOAuthFlowsUserPoolClient", "AllowedOAuthScopes", "CallbackURLs",
     "DefaultRedirectURI", "LogoutURLs", "PreventUserExistenceErrors",
     "SupportedIdentityProviders", "AnalyticsConfiguration"}

\* C14: the request an Update sends carries every mutable attribute as the
\* request of a Create of the same ResourceData would, omitted where that one
\* omits it and with the same value where that one carries it; GenerateSecret
\* is the one field of the create request the update request lacks; and the
\* update request is keyed by the current ID and user_pool_id.
C14_SameEncoding ==
    [][(lastOp'.op = "Update" /\ Update)
       => LET u == lastOp'.calls[1].params
              c == CreateParams(PlannedData(d, cfg))
          IN  /\ \A f \in MutableRequestFields : u[f] = c[f]
              /\ (DOMAIN c) \ (DOMAIN u) = {"GenerateSecret"}
              /\ u.ClientId = Some(d.id)
              /\ u.UserPoolId = Some(d.user_pool_id)]_vars

(***************************** the encoders on their own *******************)

\* Create and Update run for every configuration of the set attributes.
CodecInit ==
    /\ d = NewResourceData
    /\ cfg \in CodecConfigs
    /\ remote = {}
    /\ lastOp = Idle

CodecNext ==
    \/ Create
    \/ Update

SpecCodec == CodecInit /\ [][CodecNext]_vars

\* The field of a Create or Update request that carries a set attribute.
RequestSet(params, f) ==
    CASE f = "explicit_auth_flows" -> params.ExplicitAuthFlows
      [] f = "read_attributes" -> params.ReadAttributes
      [] f = "write_attributes" -> params.WriteAttributes
      [] f = "allowed_oauth_flows" -> params.AllowedOAuthFlows
      [] f = "allowed_oauth_scopes" -> params.AllowedOAuthScopes
      [] f = "callback_urls" -> params.CallbackURLs
      [] f = "logout_urls" -> params.LogoutURLs
      [] f = "supported_identity_providers" -> params.SupportedIdentityProviders

\* C10: the Create and the Update request carry each set attribute as it is
\* configured: omitted when it is not configured, sent as an empty set when
\* it is configured empty, sent with its elements otherwise.
C10_ThreeWaySets ==
    lastOp.op \in {"Create", "Update"}
    => \A f \in SetFields : RequestSet(lastOp.calls[1].params, f) = cfg[f]

====
